---- MODULE Spec2Model ----
(***************************************************************************)
(* Model of the chaos-and-retry execution engine of src/main.py:           *)
(* DatabaseChaosRunner.run_resilience_test, execute_query_with_retry, the  *)
(* three simulate_* fault injectors and analyze_metrics, together with the *)
(* psycopg2 connection they drive.                                         *)
(***************************************************************************)
EXTENDS Integers, Sequences, FiniteSets, TLC

(* ---------------------------------------------------------------- bounds *)

\* number of entries of test_prompts the model runs (the source lists 7)
NumPrompts == 2
\* largest max_retries argument the model passes to execute_query_with_retry
MaxRetriesBound == 3
\* largest number of rows a cursor.fetchall() returns
MaxRows == 1
\* longest self.metrics a call of analyze_metrics is tried on
MaxMetricsLen == 2
\* largest execution_time, in ticks, of the records analyze_metrics is tried on
MaxTime == 2

(* ------------------------------------------------------- program constants *)

\* default of the max_retries parameter
DefaultMaxRetries == 3

\* Python's None, for the Optional[str] fields and locals
None == "None"

\* issues.keys() of simulate_network_issues
NetworkIssues == {"latency", "timeout", "partition"}

\* chaos_types.keys() of simulate_db_specific_chaos
DbChaosTypes == {"long_query", "timeout", "kill_connection", "temp_table_stress"}

\* transaction status of a psycopg2 connection, and the closed connection
ConnStates == {"idle", "intrans", "aborted", "closed"}

\* str(e) of the psycopg2.Error subclasses the connection raises
ErrorTexts == {"InterfaceError", "OperationalError", "InFailedSqlTransaction",
               "ProgrammingError", "IntegrityError"}

(* ------------------------------------------------------------ Python values *)

\* mutant: the right operand is taken whenever it is truthy
PyOr_RightFirst(a, b) == IF b # None THEN b ELSE a

\* a or b, on Optional[str] operands (a non-empty string is truthy)
PyOr(a, b) == IF a # None THEN a ELSE b

\* bool(x) of an Optional[str]
Truthy(x) == x # None

\* a list of n rows, as cursor.fetchall() returns it
Rows(n) == [i \in 1..n |-> "row"]

\* the second component of the pair execute_query_with_retry returns
NoResults == [is_none |-> TRUE, rows |-> << >>]
ResultSet(rows) == [is_none |-> FALSE, rows |-> rows]

VARIABLES
    pc,             \* position of the single thread of control
    prompt_idx,     \* number of test_prompts the run loop has taken
    self_metrics,   \* self.metrics
    chaos_active,   \* self.chaos_active
    conn,           \* state of the psycopg2 connection
    max_retries,    \* argument of execute_query_with_retry
    attempt,        \* loop variable of execute_query_with_retry
    metrics,        \* local QueryMetrics of execute_query_with_retry
    resource_fired, \* simulate_resource_constraints ran its busy loop this attempt
    network_issue,  \* local of the current attempt
    db_chaos,       \* local of the current attempt
    results,        \* second component of the returned pair
    exc,            \* the exception in flight (None when there is none)
    analysis,       \* value returned by analyze_metrics
    attempts_made,  \* history: loop iterations entered in this invocation
    first_chaos,    \* history: fault kind of the first attempt with a fault
    last_chaos,     \* history: fault kind of the latest attempt with a fault
    backoffs,       \* history: backoff sleeps taken in this invocation
    elapsed,        \* time.time() - start_time: one tick for each attempt, whatever
                    \* waits its faults add, and one for each backoff sleep
    attempt_end,    \* history: elapsed when the latest attempt ended
    chaos_err,      \* history: the error the fault statement of this attempt raised
    extra_attempts  \* history: sum over finished tasks of attempts_made - 1

vars == << pc, prompt_idx, self_metrics, chaos_active, conn, max_retries, attempt,
           metrics, resource_fired, network_issue, db_chaos, results, exc, analysis,
           attempts_made, first_chaos, last_chaos, backoffs, elapsed, attempt_end,
           chaos_err, extra_attempts >>

(* ------------------------------------------------- the psycopg2 connection *)
\* Each operation of the connection is the set of outcomes it can have from
\* connection state c: err is the psycopg2.Error raised (None when the call
\* returns), conn the state it leaves the connection in. A statement can fail
\* on its own (a syntax error in the generated SQL, a cancel by the
\* statement_timeout an earlier fault has set); the connection is closed only
\* by the kill_connection fault and by conn.close().

Outcome(err, c) == [err |-> err, conn |-> c]

\* conn.cursor(): refuses a closed connection, otherwise touches nothing
Cursor(c) ==
    IF c = "closed" THEN {Outcome("InterfaceError", c)} ELSE {Outcome(None, c)}

\* cursor.execute(stmt) on an open connection; kills is TRUE for the statement
\* SELECT pg_terminate_backend(pg_backend_pid()), which ends the session that
\* runs it. Inside an aborted transaction the server refuses every statement.
Execute(c, kills) ==
    IF c = "aborted"
    THEN {Outcome("InFailedSqlTransaction", "aborted")}
    ELSE IF kills
    THEN {Outcome("OperationalError", "closed")}
    ELSE {Outcome(None, "intrans"), Outcome("ProgrammingError", "aborted")}

\* cursor.fetchall() after a successful execute: the rows, or "no results to
\* fetch" when the statement returned no result set
Fetchall(c) ==
    {[err |-> None, conn |-> c, rows |-> Rows(n)] : n \in 0..MaxRows}
    \cup {[err |-> "ProgrammingError", conn |-> c, rows |-> << >>]}

\* conn.commit() of an open transaction: committed, or refused at commit time
\* (a deferred constraint), which ends the transaction as well
Commit(c) ==
    {Outcome(None, "idle"), Outcome("IntegrityError", "idle")}

\* conn.rollback(): refuses a closed connection, otherwise ends the transaction
Rollback(c) ==
    IF c = "closed"
    THEN {Outcome("InterfaceError", "closed")}
    ELSE {Outcome(None, "idle")}

\* the elements of a list
Range(s) == {s[i] : i \in 1..Len(s)}

(* ------------------------------------------------------------ QueryMetrics *)

\* the QueryMetrics execute_query_with_retry constructs; prompt "" is 0 and the
\* prompts of test_prompts are 1..NumPrompts
InitialMetrics ==
    [prompt |-> 0, execution_time |-> 0, retry_count |-> 0, success |-> FALSE,
     error_type |-> None, rows_returned |-> 0, chaos_type |-> None]

\* mutant: the loop runs one attempt too many, range(max_retries + 1)
LoopContinues_OneMore(a, mr) == a <= mr

\* mutant: the loop gives up one attempt early, range(max_retries - 1)
LoopContinues_OneLess(a, mr) == a < mr - 1

\* for attempt in range(max_retries): whether the loop body runs for attempt a
LoopContinues(a, mr) == a < mr

\* mutant: a fault kind already recorded is kept
RecordChaos_KeepFirst(m, ni, dc) ==
    IF Truthy(PyOr(ni, dc)) /\ m.chaos_type = None
    THEN [m EXCEPT !.chaos_type = PyOr(ni, dc)] ELSE m

\* if network_issue or db_chaos: metrics.chaos_type = network_issue or db_chaos
RecordChaos(m, ni, dc) ==
    IF Truthy(PyOr(ni, dc)) THEN [m EXCEPT !.chaos_type = PyOr(ni, dc)] ELSE m

\* mutant: the row count is not recorded
OnSuccess_NoRowCount(m, rows, a) ==
    [m EXCEPT !.success = TRUE, !.retry_count = a]

\* the three assignments of the success path
OnSuccess(m, rows, a) ==
    [m EXCEPT !.success = TRUE, !.rows_returned = Len(rows), !.retry_count = a]

\* mutant: the except clause stores attempt, not attempt + 1
OnFailure_NoIncrement(m, e, a) ==
    [m EXCEPT !.error_type = e, !.retry_count = a]

\* the assignments of the except clause that follow conn.rollback()
OnFailure(m, e, a) ==
    [m EXCEPT !.error_type = e, !.retry_count = a + 1]

\* the try block of simulate_db_specific_chaos for fault kind: cursor(),
\* execute(chaos_types[kind]), commit(); err is the error that ends the block
\* (None when it runs to its end), conn the connection it leaves
ChaosOutcomes(c, kind) ==
    UNION { IF o.err # None THEN {Outcome(o.err, o.conn)}
            ELSE UNION { IF e.err # None THEN {Outcome(e.err, e.conn)}
                         ELSE Commit(e.conn)
                         : e \in Execute(o.conn, kind = "kill_connection") }
            : o \in Cursor(c) }

\* mutant: the except clause of simulate_db_specific_chaos raises the error again
ChaosExcept_Reraise(e) == e

\* except Exception as e: print(...): the exception that leaves
\* simulate_db_specific_chaos when its try block ended with e; none does
ChaosExcept(e) == None

\* finally: metrics.execution_time = time.time() - start_time
Finally(m, t) == [m EXCEPT !.execution_time = t]

\* the outcomes of the with block of execute_query_with_retry: cursor(),
\* execute(sql_query), fetchall(), commit(); the first error ends the block
QueryOutcomes(c) ==
    LET none == << >> IN
    UNION { IF o.err # None THEN {[err |-> o.err, conn |-> o.conn, rows |-> none]}
            ELSE UNION { IF e.err # None
                         THEN {[err |-> e.err, conn |-> e.conn, rows |-> none]}
                         ELSE UNION { IF f.err # None
                                      THEN {[err |-> f.err, conn |-> f.conn, rows |-> none]}
                                      ELSE {[err |-> k.err, conn |-> k.conn, rows |-> f.rows]
                                            : k \in Commit(f.conn)}
                                      : f \in Fetchall(e.conn) }
                         : e \in Execute(o.conn, FALSE) }
            : o \in Cursor(c) }

(* --------------------------------------------------------- analyze_metrics *)

RECURSIVE SumOver(_, _)
\* sum(f(m) for m in ms), with f given as the function applied to each record
SumOver(ms, f) ==
    IF ms = << >> THEN 0 ELSE f[Head(ms)] + SumOver(Tail(ms), f)

NoAnalysis == [kind |-> "unset"]

\* mutant: the maximum is taken to be the last record's time
MaxTimeOver_Last(ms) == ms[Len(ms)].execution_time

\* max(m.execution_time for m in self.metrics), of a non-empty list
MaxTimeOver(ms) ==
    CHOOSE t \in {m.execution_time : m \in Range(ms)} :
        \A m \in Range(ms) : m.execution_time <= t

\* statistics.mean(m.execution_time for m in self.metrics), of a non-empty
\* list: the quotient sum / count, kept as the pair
MeanTimeOver(ms) ==
    [sum |-> SumOver(ms, [m \in Range(ms) |-> m.execution_time]), count |-> Len(ms)]

\* the dict analyze_metrics builds; on no data statistics.mean raises
\* StatisticsError before max() is reached
Aggregates(ms) ==
    IF ms = << >>
    THEN [kind |-> "StatisticsError"]
    ELSE [kind |-> "dict",
          total_queries |-> Len(ms),
          successful_queries |-> SumOver(ms, [m \in Range(ms) |-> IF m.success THEN 1 ELSE 0]),
          avg_execution_time |-> MeanTimeOver(ms),
          max_execution_time |-> MaxTimeOver(ms),
          total_retries |-> SumOver(ms, [m \in Range(ms) |-> m.retry_count]),
          chaos_incidents |->
              SumOver(ms, [m \in Range(ms) |-> IF m.chaos_type # None THEN 1 ELSE 0])]

\* mutant: analyze_metrics without its test for an empty list
EmptyGuard_Missing(ms) == FALSE

\* if not self.metrics
EmptyGuard(ms) == ms = << >>

\* analyze_metrics(self): the string "No metrics collected yet." or the dict
AnalyzeMetrics(ms) ==
    IF EmptyGuard(ms) THEN [kind |-> "str"] ELSE Aggregates(ms)

(* ------------------------------------------------------------------- Init *)

\* the state in which execute_query_with_retry(conn, sql_query, max_retries)
\* reaches its for statement, on a connection with no transaction open
Init ==
    /\ pc = "loop_head"
    /\ prompt_idx = 1
    /\ self_metrics = << >>
    /\ chaos_active = TRUE
    /\ conn = "idle"
    /\ max_retries \in 0..MaxRetriesBound
    /\ attempt = 0
    /\ metrics = InitialMetrics
    /\ resource_fired = FALSE
    /\ network_issue = None
    /\ db_chaos = None
    /\ results = NoResults
    /\ exc = None
    /\ analysis = NoAnalysis
    /\ attempts_made = 0
    /\ first_chaos = None
    /\ last_chaos = None
    /\ backoffs = 0
    /\ elapsed = 0
    /\ attempt_end = 0
    /\ chaos_err = None
    /\ extra_attempts = 0

\* the state in which run_resilience_test reaches its for statement: the
\* runner constructed, the connection opened and setup_database committed
RunInit ==
    /\ pc = "run_loop"
    /\ prompt_idx = 0
    /\ self_metrics = << >>
    /\ chaos_active = TRUE
    /\ conn = "idle"
    /\ max_retries = DefaultMaxRetries
    /\ attempt = 0
    /\ metrics = InitialMetrics
    /\ resource_fired = FALSE
    /\ network_issue = None
    /\ db_chaos = None
    /\ results = NoResults
    /\ exc = None
    /\ analysis = NoAnalysis
    /\ attempts_made = 0
    /\ first_chaos = None
    /\ last_chaos = None
    /\ backoffs = 0
    /\ elapsed = 0
    /\ attempt_end = 0
    /\ chaos_err = None
    /\ extra_attempts = 0

(* ---------------------------------------------------------------- actions *)

\* run_resilience_test takes the next prompt and calls execute_query_with_retry,
\* which builds its QueryMetrics and reaches the for statement
EnterTask ==
    /\ pc = "run_loop"
    /\ prompt_idx < NumPrompts
    /\ prompt_idx' = prompt_idx + 1
    /\ metrics' = InitialMetrics
    /\ attempt' = 0
    /\ results' = NoResults
    /\ attempts_made' = 0
    /\ first_chaos' = None
    /\ last_chaos' = None
    /\ backoffs' = 0
    /\ elapsed' = 0
    /\ attempt_end' = 0
    /\ pc' = "loop_head"
    /\ UNCHANGED << self_metrics, chaos_active, conn, max_retries, resource_fired,
                    network_issue, db_chaos, exc, analysis, chaos_err, extra_attempts >>

\* the for statement: enter the body for this attempt, or fall through to
\* return metrics, None
LoopHead ==
    /\ pc = "loop_head"
    /\ IF LoopContinues(attempt, max_retries)
       THEN /\ pc' = "resource"
            /\ attempts_made' = attempts_made + 1
            /\ results' = results
       ELSE /\ pc' = "returned"
            /\ results' = NoResults
            /\ attempts_made' = attempts_made
    /\ UNCHANGED << prompt_idx, self_metrics, chaos_active, conn, max_retries, attempt,
                    metrics, resource_fired, network_issue, db_chaos, exc, analysis,
                    first_chaos, last_chaos, backoffs, elapsed, attempt_end, chaos_err, extra_attempts >>

\* simulate_resource_constraints: the busy loop runs when random.random() < 0.2
SimulateResourceConstraints ==
    /\ pc = "resource"
    /\ \E fire \in BOOLEAN : resource_fired' = fire
    /\ pc' = "network"
    /\ UNCHANGED << prompt_idx, self_metrics, chaos_active, conn, max_retries, attempt,
                    metrics, network_issue, db_chaos, results, exc, analysis,
                    attempts_made, first_chaos, last_chaos, backoffs, elapsed, attempt_end, chaos_err,
                    extra_attempts >>

\* simulate_network_issues: skip is random.random() > 0.2
SimulateNetworkIssues ==
    /\ pc = "network"
    /\ \E skip \in BOOLEAN, issue_type \in NetworkIssues :
          network_issue' = IF ~chaos_active \/ skip THEN None ELSE issue_type
    /\ pc' = "db_chaos"
    /\ UNCHANGED << prompt_idx, self_metrics, chaos_active, conn, max_retries, attempt,
                    metrics, resource_fired, db_chaos, results, exc, analysis,
                    attempts_made, first_chaos, last_chaos, backoffs, elapsed, attempt_end, chaos_err,
                    extra_attempts >>

\* simulate_db_specific_chaos(conn): skip is random.random() > 0.3. An
\* exception that left it would be caught by the except clause of
\* execute_query_with_retry, before the fault kind is recorded.
SimulateDbSpecificChaos ==
    /\ pc = "db_chaos"
    /\ \E skip \in BOOLEAN, chaos_type \in DbChaosTypes :
          IF ~chaos_active \/ skip
          THEN /\ db_chaos' = None
               /\ conn' = conn
               /\ chaos_err' = None
               /\ exc' = exc
               /\ pc' = "query"
          ELSE \E o \in ChaosOutcomes(conn, chaos_type) :
                  /\ conn' = o.conn
                  /\ chaos_err' = o.err
                  /\ IF o.err = None \/ ChaosExcept(o.err) = None
                     THEN /\ db_chaos' = chaos_type
                          /\ exc' = exc
                          /\ pc' = "query"
                     ELSE /\ db_chaos' = None
                          /\ exc' = ChaosExcept(o.err)
                          /\ pc' = "handler"
    /\ UNCHANGED << prompt_idx, self_metrics, chaos_active, max_retries, attempt,
                    metrics, resource_fired, network_issue, results, analysis,
                    attempts_made, first_chaos, last_chaos, backoffs, elapsed, attempt_end,
                    extra_attempts >>

\* the fault kind of an attempt whose injectors returned ni and dc: the
\* network-side kind when there is one, else the database-side kind, else None
AttemptFault(ni, dc) == IF ni # None THEN ni ELSE dc

\* the rest of the try block: record the fault kind, run the query, and on
\* success fill the metrics and return (metrics, results) through finally;
\* a psycopg2.Error goes to the except clause
ExecuteQuery ==
    /\ pc = "query"
    /\ \E q \in QueryOutcomes(conn) :
          /\ conn' = q.conn
          /\ IF q.err = None
             THEN /\ metrics' = Finally(OnSuccess(RecordChaos(metrics, network_issue,
                                                               db_chaos),
                                                   q.rows, attempt),
                                         elapsed + 1)
                  /\ results' = ResultSet(q.rows)
                  /\ exc' = None
                  /\ pc' = "returned"
             ELSE /\ metrics' = RecordChaos(metrics, network_issue, db_chaos)
                  /\ results' = results
                  /\ exc' = q.err
                  /\ pc' = "handler"
    /\ first_chaos' = IF first_chaos = None THEN AttemptFault(network_issue, db_chaos)
                      ELSE first_chaos
    /\ last_chaos' = IF AttemptFault(network_issue, db_chaos) # None
                     THEN AttemptFault(network_issue, db_chaos)
                     ELSE last_chaos
    \* the locals of the attempt are dead from here on
    /\ resource_fired' = FALSE
    /\ network_issue' = None
    /\ db_chaos' = None
    /\ chaos_err' = None
    \* the attempt has taken its tick
    /\ elapsed' = elapsed + 1
    /\ attempt_end' = elapsed + 1
    /\ UNCHANGED << prompt_idx, self_metrics, chaos_active, max_retries, attempt,
                    analysis, attempts_made, backoffs, extra_attempts >>

\* mutant: the except clause issues no rollback
HandlerRollback_Skipped(c) == {Outcome(None, c)}

\* the outcomes of conn.rollback() in the except clause
HandlerRollback(c) == Rollback(c)

\* except psycopg2.Error: rollback, fill the metrics, sleep the backoff for
\* one tick, and go round the loop through finally; an error of conn.rollback()
\* leaves the function, through finally as well
HandleError ==
    /\ pc = "handler"
    /\ \E r \in HandlerRollback(conn) :
          /\ conn' = r.conn
          /\ IF r.err = None
             THEN /\ metrics' = Finally(OnFailure(metrics, exc, attempt), elapsed + 1)
                  /\ backoffs' = backoffs + 1
                  /\ elapsed' = elapsed + 1
                  /\ attempt' = attempt + 1
                  /\ exc' = None
                  /\ pc' = "loop_head"
             ELSE /\ metrics' = Finally(metrics, elapsed)
                  /\ exc' = r.err
                  /\ pc' = "raised"
                  /\ UNCHANGED << backoffs, elapsed, attempt >>
    /\ UNCHANGED << prompt_idx, self_metrics, chaos_active, max_retries, resource_fired,
                    network_issue, db_chaos, results, analysis, attempts_made,
                    first_chaos, last_chaos, attempt_end, chaos_err, extra_attempts >>

\* back in run_resilience_test: metrics.prompt = prompt; self.metrics.append(metrics)
AppendMetrics ==
    /\ pc = "returned"
    /\ self_metrics' = Append(self_metrics, [metrics EXCEPT !.prompt = prompt_idx])
    /\ extra_attempts' = extra_attempts + (attempts_made - 1)
    /\ pc' = "run_loop"
    /\ UNCHANGED << prompt_idx, chaos_active, conn, max_retries, attempt, metrics,
                    resource_fired, network_issue, db_chaos, results, exc, analysis,
                    attempts_made, first_chaos, last_chaos, backoffs, elapsed, attempt_end, chaos_err >>

\* after the last prompt: analysis = self.analyze_metrics(); the summary is
\* printed and the connection closed
Summarize ==
    /\ pc = "run_loop"
    /\ prompt_idx = NumPrompts
    /\ analysis' = AnalyzeMetrics(self_metrics)
    /\ conn' = "closed"
    /\ pc' = "done"
    /\ UNCHANGED << prompt_idx, self_metrics, chaos_active, max_retries, attempt,
                    metrics, resource_fired, network_issue, db_chaos, results, exc,
                    attempts_made, first_chaos, last_chaos, backoffs, elapsed, attempt_end, chaos_err, extra_attempts >>

\* one invocation of execute_query_with_retry
Next ==
    \/ LoopHead
    \/ SimulateResourceConstraints
    \/ SimulateNetworkIssues
    \/ SimulateDbSpecificChaos
    \/ ExecuteQuery
    \/ HandleError

Spec == Init /\ [][Next]_vars

\* one invocation in which every wait ends on its own: the busy loop and the
\* sleeps of the injectors, the query, and the backoff sleep all return, so a
\* step of the invocation that can be taken is taken
FairSpec == Spec /\ WF_vars(Next)

\* run_resilience_test, from its for statement on
RunNext ==
    \/ EnterTask
    \/ LoopHead
    \/ SimulateResourceConstraints
    \/ SimulateNetworkIssues
    \/ SimulateDbSpecificChaos
    \/ ExecuteQuery
    \/ HandleError
    \/ AppendMetrics
    \/ Summarize

RunSpec == RunInit /\ [][RunNext]_vars

\* execute_query_with_retry reaching its for statement on a runner whose
\* chaos_active attribute has been set to False
InactiveInit ==
    /\ pc = "loop_head"
    /\ prompt_idx = 1
    /\ self_metrics = << >>
    /\ chaos_active = FALSE
    /\ conn = "idle"
    /\ max_retries \in 0..MaxRetriesBound
    /\ attempt = 0
    /\ metrics = InitialMetrics
    /\ resource_fired = FALSE
    /\ network_issue = None
    /\ db_chaos = None
    /\ results = NoResults
    /\ exc = None
    /\ analysis = NoAnalysis
    /\ attempts_made = 0
    /\ first_chaos = None
    /\ last_chaos = None
    /\ backoffs = 0
    /\ elapsed = 0
    /\ attempt_end = 0
    /\ chaos_err = None
    /\ extra_attempts = 0

InactiveSpec == InactiveInit /\ [][Next]_vars

\* the QueryMetrics a call of analyze_metrics is tried on
SampleMetrics ==
    { [InitialMetrics EXCEPT !.execution_time = t, !.retry_count = r,
                             !.success = sc, !.chaos_type = c] :
        t \in 1..MaxTime, r \in 0..1, sc \in BOOLEAN, c \in {None, "latency"} }

\* the lists of at most n elements of S
SeqsUpTo(S, n) == UNION { [1..k -> S] : k \in 0..n }

\* a runner whose self.metrics holds any list of records, about to be analysed
AnalyzeInit ==
    /\ pc = "analyze"
    /\ prompt_idx = 0
    /\ self_metrics \in SeqsUpTo(SampleMetrics, MaxMetricsLen)
    /\ chaos_active = TRUE
    /\ conn = "idle"
    /\ max_retries = DefaultMaxRetries
    /\ attempt = 0
    /\ metrics = InitialMetrics
    /\ resource_fired = FALSE
    /\ network_issue = None
    /\ db_chaos = None
    /\ results = NoResults
    /\ exc = None
    /\ analysis = NoAnalysis
    /\ attempts_made = 0
    /\ first_chaos = None
    /\ last_chaos = None
    /\ backoffs = 0
    /\ elapsed = 0
    /\ attempt_end = 0
    /\ chaos_err = None
    /\ extra_attempts = 0

\* a call of analyze_metrics, which only reads self.metrics
Analyze ==
    /\ pc = "analyze"
    /\ analysis' = AnalyzeMetrics(self_metrics)
    /\ pc' = "analyzed"
    /\ UNCHANGED << prompt_idx, self_metrics, chaos_active, conn, max_retries, attempt,
                    metrics, resource_fired, network_issue, db_chaos, results, exc,
                    attempts_made, first_chaos, last_chaos, backoffs, elapsed,
                    attempt_end, chaos_err, extra_attempts >>

AnalyzeNext == Analyze

AnalyzeSpec == AnalyzeInit /\ [][AnalyzeNext]_vars

\* the values the variables of the program take
TypeOK ==
    /\ pc \in {"run_loop", "loop_head", "resource", "network", "db_chaos", "query",
                "handler", "returned", "raised", "done", "analyze", "analyzed"}
    /\ prompt_idx \in 0..NumPrompts
    /\ Len(self_metrics) <= NumPrompts + MaxMetricsLen
    /\ chaos_active \in BOOLEAN
    /\ conn \in ConnStates
    /\ max_retries \in 0..(MaxRetriesBound + DefaultMaxRetries)
    /\ attempt \in 0..max_retries
    /\ metrics.error_type \in ErrorTexts \cup {None}
    /\ metrics.chaos_type = "latency" \cup DbChaosTypes \cup {None}
    /\ metrics.rows_returned \in 0..MaxRows
    /\ resource_fired \in BOOLEAN
    /\ network_issue \in NetworkIssues \cup {None}
    /\ db_chaos \in DbChaosTypes \cup {None}
    /\ exc \in ErrorTexts \cup {None}

(* ================================================================ claims *)

\* the invocation has returned a (metrics, results) pair to its caller
Returned == pc = "returned"

\* the invocation has ended by an exception leaving the function
Raised == pc = "raised"

\* C1: for max_retries >= 1, execute_query_with_retry never ends by raising:
\* whatever the connection raises, rollback included, it returns a pair.
C1_NeverRaises == max_retries >= 1 => ~Raised

\* C2: every returned Metrics with success = true has error_type = None, also
\* when earlier attempts of the task failed.
C2_SuccessHasNoError ==
    (Returned /\ metrics.success) => metrics.error_type = None

\* C3: for max_retries >= 1, on every return the number of attempts made is
\* 1 + retry_count, on the succeeded and on the exhausted exit.
C3_AttemptsAreOnePlusRetries ==
    (Returned /\ max_retries >= 1) => attempts_made = 1 + metrics.retry_count

\* C4: for max_retries >= 1 the number of attempts made never exceeds
\* max_retries, and is at least 1 when the invocation ends.
C4_AttemptsWithinBounds ==
    max_retries >= 1 =>
        /\ attempts_made <= max_retries
        /\ (Returned \/ Raised) => attempts_made >= 1

\* C4 witness: an invocation returned having used all of several attempts
C4_Witness ==
    Returned /\ max_retries >= 2 /\ attempts_made = max_retries

\* C5: for max_retries >= 1, a return with success = false has made exactly
\* max_retries attempts and carries an error_type that is not None.
C5_FailureUsedAllAttempts ==
    (Returned /\ max_retries >= 1 /\ ~metrics.success) =>
        /\ attempts_made = max_retries
        /\ metrics.error_type # None

\* C5 witness: the scenario of three attempts that all fail
C5_Witness ==
    /\ Returned
    /\ ~metrics.success
    /\ max_retries = 3
    /\ attempts_made = 3
    /\ metrics.error_type # None

\* C6: the summary's total_retries is the sum over the tasks of the attempts
\* made beyond the first (attempts made - 1), and successful_queries counts
\* the tasks that succeeded.
C6_TotalRetriesAreExtraAttempts ==
    (pc = "done" /\ analysis.kind = "dict") =>
        /\ analysis.total_retries = extra_attempts
        /\ analysis.successful_queries =
               Cardinality({i \in 1..Len(self_metrics) : self_metrics[i].success})

C8_ResultIffSuccess ==
    Returned =>
        /\ results.is_none <=> ~metrics.success
        /\ metrics.success => metrics.rows_returned = Len(results.rows)
        /\ ~metrics.success => (metrics.rows_returned = 0 /\ results = NoResults)

\* C8 witness: a success that returns a non-empty result set after a failed attempt
C8_Witness ==
    /\ Returned
    /\ metrics.success
    /\ attempts_made >= 2
    /\ Len(results.rows) >= 1
    /\ metrics.rows_returned = Len(results.rows)

\* C9: the records are appended in submission order, one per task, and when
\* the run has ended every task has its record and the summary was produced,
\* whatever happened to the tasks before.
C9_EveryTaskYieldsItsRecord ==
    /\ \A i \in 1..Len(self_metrics) : self_metrics[i].prompt = i
    /\ pc \in {"done", "raised"} =>
           (Len(self_metrics) = NumPrompts /\ analysis.kind = "dict")

\* C10: when an attempt starts, and when the invocation returns, the connection
\* has no open or aborted transaction: each failed attempt was rolled back.
C10_CleanBetweenAttempts ==
    pc \in {"loop_head", "resource", "network", "db_chaos", "returned"} => conn = "idle"

\* C10 witness: an attempt failed inside the transaction its fault statement
\* had aborted, and the next attempt is about to start on an idle connection
C10_Witness ==
    /\ pc = "loop_head"
    /\ attempt >= 1
    /\ attempt < max_retries
    /\ metrics.error_type = "InFailedSqlTransaction"
    /\ conn = "idle"

\* C11: when a database-side fault is selected and its statement errors,
\* simulate_db_specific_chaos swallows the error: it returns the chosen fault
\* kind and no exception leaves it.
C11_ChaosErrorSwallowed ==
    chaos_err # None => (pc = "query" /\ db_chaos \in DbChaosTypes /\ exc = None)

\* C11 witness: the kill_connection fault has closed the connection under its
\* own statement, and the injector has returned its kind
C11_Witness ==
    /\ pc = "query"
    /\ chaos_err = "OperationalError"
    /\ db_chaos = "kill_connection"
    /\ conn = "closed"

\* C12: while chaos_active is false no fault of any family fires: no busy
\* loop, no network issue, no database fault, and chaos_type stays None.
C12_InactiveInjectsNothing ==
    ~chaos_active =>
        /\ ~resource_fired
        /\ network_issue = None
        /\ db_chaos = None
        /\ chaos_err = None
        /\ metrics.chaos_type = None

\* C13: analyze_metrics on an empty list yields its no-data sentinel and never
\* takes a mean or a maximum over zero records; on a non-empty list it yields
\* the dict of aggregates.
C13_EmptyRunIsExplicit ==
    pc = "analyzed" =>
        IF self_metrics = << >>
        THEN analysis.kind = "str"
        ELSE /\ analysis.kind = "dict"
             /\ analysis.total_queries = Len(self_metrics)
             /\ analysis.avg_execution_time.count >= 1

\* C13 witness: analyze_metrics has been called on the empty list
C13_Witness ==
    pc = "analyzed" /\ self_metrics = << >> /\ analysis.kind = "str"

\* the lists that hold the elements of ms in another order
Reorderings(ms) ==
    { [i \in 1..Len(ms) |-> ms[f[i]]] :
        f \in { g \in [1..Len(ms) -> 1..Len(ms)] :
                    \A i, j \in 1..Len(ms) : g[i] = g[j] => i = j } }

\* C14: analyze_metrics gives the same aggregates on every permutation of the
\* list, and the call leaves the list and its records as they were.
C14_AnalyzeIsOrderIndependent ==
    /\ [](pc = "analyzed" =>
            \A ms \in Reorderings(self_metrics) : AnalyzeMetrics(ms) = analysis)
    /\ [][self_metrics' = self_metrics]_vars

\* C14 witness: a list of two records that differ in every aggregated field
\* has been analysed
C14_Witness ==
    /\ pc = "analyzed"
    /\ Len(self_metrics) = 2
    /\ self_metrics[1].execution_time < self_metrics[2].execution_time
    /\ self_metrics[1].retry_count > self_metrics[2].retry_count
    /\ self_metrics[1].success # self_metrics[2].success
    /\ self_metrics[1].chaos_type # self_metrics[2].chaos_type

\* C15: when every wait ends on its own and max_retries >= 1, the invocation
\* eventually ends by returning, succeeded or exhausted, having made at most
\* max_retries attempts; and no attempt starts after a successful attempt or
\* after the max_retries-th failed one.
C15_EndsSucceededOrExhausted ==
    /\ (max_retries >= 1) => <>(Returned /\ attempts_made <= max_retries)
    /\ [][(attempts_made' > attempts_made) =>
            (~metrics.success /\ attempts_made < max_retries)]_vars

\* C16: an exhausted invocation of k attempts has slept k - 1 backoffs, and
\* its execution_time is the time at which its last attempt ended.
C16_NoBackoffAfterLastAttempt ==
    (Returned /\ max_retries >= 1 /\ ~metrics.success) =>
        /\ backoffs = attempts_made - 1
        /\ metrics.execution_time = attempt_end

\* C17: a call with max_retries < 1 never returns a pair to its caller.
C17_ZeroAttemptsNeverReturned ==
    max_retries < 1 => ~Returned

\* C18: when the injectors of an attempt have run, at most one of the three
\* has fired, and the fault kind of the attempt is None exactly when none has.
C18_AtMostOneFaultPerAttempt ==
    pc = "query" =>
        /\ ~(resource_fired /\ network_issue # None)
        /\ ~(resource_fired /\ db_chaos # None)
        /\ ~(network_issue # None /\ db_chaos # None)
        /\ (AttemptFault(network_issue, db_chaos) = None)
              <=> (~resource_fired /\ network_issue = None /\ db_chaos = None)

\* C19: on every return retry_count is the number of attempts that failed: 0
\* after a first attempt that succeeds, k after k failures and a success,
\* max_retries on exhaustion; and no step of the invocation lowers it.
C19_RetryCountIsFailedAttempts ==
    /\ [](Returned =>
            /\ metrics.retry_count =
                  attempts_made - (IF metrics.success THEN 1 ELSE 0)
            /\ ~metrics.success => metrics.retry_count = max_retries)
    /\ [][metrics'.retry_count >= metrics.retry_count]_vars

\* C19 witness: a return with success after two failed attempts
C19_Witness ==
    Returned /\ metrics.success /\ attempts_made = 3 /\ metrics.retry_count = 2

\* C20: no step resets a chaos_type that is set; on return chaos_type is set
\* exactly when a network-side or database-side fault fired on some attempt;
\* and an attempt on which both fired records the network-side kind.
C20_ChaosTypeSticksNetworkFirst ==
    /\ [](Returned => (metrics.chaos_type # None <=> first_chaos # None))
    /\ [][metrics.chaos_type # None => metrics'.chaos_type # None]_vars
    /\ [][(pc = "query" /\ network_issue # None /\ db_chaos # None)
            => metrics'.chaos_type = network_issue]_vars

\* C20 witness: the last attempt had a network-side fault and a database-side
\* fault that aborted the transaction, and the network-side kind is recorded
C20_Witness ==
    /\ Returned
    /\ ~metrics.success
    /\ metrics.error_type = "InFailedSqlTransaction"
    /\ metrics.chaos_type = "latency"

====
